---- MODULE Spec2Model ----
(***************************************************************************)
(* Entry balancing (entry_base_t::finalize) and automated-entry expansion  *)
(* (auto_entry_t::extend_entry) of src/entry.cc.                           *)
(*                                                                         *)
(* Quantities are integers in internal units: one presentation unit is     *)
(* Fine internal units, so that a quotient keeps digits beyond the         *)
(* presentation precision and value_t::round() has something to round.     *)
(* A commodity is a pair <<name, lot>>; lot = -1 is the plain commodity,   *)
(* lot >= 0 the commodity annotated with that per-unit price (in internal  *)
(* units).  An annotated commodity is a commodity of its own.              *)
(***************************************************************************)
EXTENDS Integers, Sequences, FiniteSets, TLC

\* ---------------------------------------------------------------- bounds
MaxXacts == 2
MaxQty == 3
MaxLot == 2

\* Internal units per presentation unit (extra digits kept by a division).
Fine == 100

\* ------------------------------------------------------------- amount_t
NoLot == -1

NullCommodity == <<"", NoLot>>

\* An amount_t that was never assigned (amount_t::is_null), also an absent cost.
NullAmt == [q |-> 0, c |-> <<"null", NoLot>>]

is_null(a) == a = NullAmt

\* n presentation units of a plain commodity.
Amt(n, name) == [q |-> n * Fine, c |-> <<name, NoLot>>]

\* n presentation units of the lot of `name` bought at `price` a unit.
LotAmt(n, name, price) == [q |-> n * Fine, c |-> <<name, price * Fine>>]

\* commodity_annotated(): the amount's commodity carries a lot price.
commodity_annotated(a) == a.c[2] # NoLot

Abs(n) == IF n < 0 THEN 0 - n ELSE n

negate(a) == [q |-> 0 - a.q, c |-> a.c]

\* y / x instead of x / y.
PerUnitCost_Inverse(x, y) ==
  [q |-> IF x.q = 0 THEN 0 ELSE (Abs(y.q) * Fine) \div Abs(x.q), c |-> x.c]

\* x / y followed by abs(): the ratio of the two quantities, kept to Fine.
PerUnitCost(x, y) == [q |-> (Abs(x.q) * Fine) \div Abs(y.q), c |-> x.c]

\* a * b: the product keeps the commodity of the left operand when it has one.
multiply(a, b) ==
  [q |-> (a.q * b.q) \div Fine,
   c |-> IF a.c # NullCommodity THEN a.c ELSE b.c]

\* Rounding of one quantity to presentation precision (half up).
RoundQty(n) == ((2 * n + Fine) \div (2 * Fine)) * Fine

\* -------------------------------------------------------------- value_t
\* A value_t is a function from the commodities it holds to quantities: the
\* empty function is the null value, one commodity is an AMOUNT, two or more a
\* BALANCE.
NULL_VALUE == <<>>

value_is_null(v) == DOMAIN v = {}

is_balance(v) == Cardinality(DOMAIN v) >= 2

\* balance += p (balance = p when the value is null).
ValueAdd(v, a) ==
  [c \in (DOMAIN v) \cup {a.c} |->
     (IF c \in DOMAIN v THEN v[c] ELSE 0) + (IF c = a.c THEN a.q ELSE 0)]

ValueSub(v, a) == ValueAdd(v, negate(a))

\* balance.round()
ValueRound(v) == [c \in DOMAIN v |-> RoundQty(v[c])]

\* balance.is_zero()
ValueIsZero(v) == \A c \in DOMAIN v : v[c] = 0

\* Canonical order of commodities: by name, then by lot.
Rank(name) ==
  CASE name = "A" -> 1
    [] name = "B" -> 2
    [] name = "C" -> 3
    [] OTHER -> 0

CommodityLess(c, d) ==
  \/ Rank(c[1]) < Rank(d[1])
  \/ Rank(c[1]) = Rank(d[1]) /\ c[2] < d[2]

RECURSIVE SortCommodities(_)
SortCommodities(S) ==
  IF S = {} THEN <<>>
  ELSE LET m == CHOOSE c \in S : \A d \in S \ {c} : CommodityLess(c, d)
       IN <<m>> \o SortCommodities(S \ {m})

\* bal.amounts in iteration order, as a sequence of amounts.
BalanceAmounts(v) ==
  LET cs == SortCommodities(DOMAIN v)
  IN [i \in 1..Len(cs) |-> [q |-> v[cs[i]], c |-> cs[i]]]

\* --------------------------------------------------------------- xact_t
DefaultState == "uncleared"

Xact(account, amount, cost, state, flags) ==
  [account |-> account, amount |-> amount, cost |-> cost,
   state |-> state, flags |-> flags]

\* Postings outside the balance are the virtual ones.
must_balance(x) == "VIRTUAL" \notin x.flags

\* ------------------------------------------------- entry_base_t::finalize
\* The amount a posting contributes: its cost when it has one.
P(x) == IF ~is_null(x.cost) THEN x.cost ELSE x.amount

\* The later null posting replaces the earlier one without an error.
NullAmountSeen_Last(acc, i) == [acc EXCEPT !.null_xact = i]

\* A must-balance posting without a value: the second one is an error.
NullAmountSeen(acc, i) ==
  IF acc.null_xact # 0
  THEN [acc EXCEPT !.error = TRUE]
  ELSE [acc EXCEPT !.null_xact = i]

AccumulateStep(acc, xs, i) ==
  IF acc.error \/ ~must_balance(xs[i]) THEN acc
  ELSE IF ~is_null(P(xs[i]))
       THEN [acc EXCEPT !.balance = ValueAdd(@, P(xs[i]))]
       ELSE NullAmountSeen(acc, i)

RECURSIVE AccumulateFrom(_, _, _)
AccumulateFrom(acc, xs, i) ==
  IF i > Len(xs) THEN acc
  ELSE AccumulateFrom(AccumulateStep(acc, xs, i), xs, i + 1)

Accumulate(xs) ==
  AccumulateFrom([balance |-> NULL_VALUE, null_xact |-> 0, error |-> FALSE],
                 xs, 1)

\* The posting balanced against the journal's default account.
BasketXact(basket, first) ==
  Xact(basket, NullAmt, NullAmt, first.state, {"GENERATED"})

UsesBasket(xs, basket) == basket # "" /\ Len(xs) = 1

\* The total itself, not negated.
NullXactAmount_Same(total) == total

\* The amount given to the null posting for one commodity's total.
NullXactAmount(total) == negate(total)

\* A posting generated for one more commodity of the balance.
GeneratedXact(null_xact, total) ==
  Xact(null_xact.account, NullXactAmount(total), NullAmt, DefaultState,
       {"GENERATED"})

\* One posting for every commodity, the first included.
GeneratedXacts_All(null_xact, amts) ==
  [j \in 1..Len(amts) |-> GeneratedXact(null_xact, amts[j])]

GeneratedXacts(null_xact, amts) ==
  [j \in 1..(Len(amts) - 1) |-> GeneratedXact(null_xact, amts[j + 1])]

\* The value is neither a balance nor an amount: as_amount() has nothing to
\* return.
NoAmountToNegate(bal) == ~is_balance(bal) /\ value_is_null(bal)

ResolveNull(xs, n, bal) ==
  IF is_balance(bal)
  THEN LET amts == BalanceAmounts(bal)
       IN [xs EXCEPT ![n].amount = NullXactAmount(amts[1])]
            \o GeneratedXacts(xs[n], amts)
  ELSE IF value_is_null(bal) THEN xs
  ELSE [xs EXCEPT ![n].amount = NullXactAmount(BalanceAmounts(bal)[1]),
                  ![n].flags = @ \cup {"CALCULATED"}]

\* The postings whose cost is inferred from the other commodity.
NeedsCost(x, comm) ==
  ~(~is_null(x.cost) \/ ~must_balance(x) \/ x.amount.c = comm)

InferredCost(per_unit_cost, x_amt) == multiply(per_unit_cost, x_amt)

InfersCosts(bal) ==
  /\ is_balance(bal)
  /\ Cardinality(DOMAIN bal) = 2
  /\ BalanceAmounts(bal)[2].q # 0

InferCosts(xs, bal) ==
  LET x == BalanceAmounts(bal)[1]
      y == BalanceAmounts(bal)[2]
      per_unit_cost == PerUnitCost(x, y)
  IN [i \in 1..Len(xs) |->
        IF NeedsCost(xs[i], x.c)
        THEN [xs[i] EXCEPT !.cost = InferredCost(per_unit_cost, xs[i].amount)]
        ELSE xs[i]]

RECURSIVE RebalanceFrom(_, _, _, _, _)
RebalanceFrom(bal, old, new, comm, i) ==
  IF i > Len(old) THEN bal
  ELSE RebalanceFrom(
         IF NeedsCost(old[i], comm)
         THEN ValueAdd(ValueSub(bal, old[i].amount), new[i].cost)
         ELSE bal,
         old, new, comm, i + 1)

\* commodity_t::exchange: the amount annotated with its per-unit price, the
\* total cost, and the cost at the price of the lot being disposed of.
Exchange(amount, cost) ==
  [ann_amount |->
     [q |-> amount.q,
      c |-> <<amount.c[1],
              IF commodity_annotated(amount) THEN amount.c[2]
              ELSE IF amount.q = 0 THEN 0
              ELSE (Abs(cost.q) * Fine) \div Abs(amount.q)>>],
   final_cost |-> cost,
   basis_cost |->
     IF commodity_annotated(amount)
     THEN [q |-> (amount.c[2] * amount.q) \div Fine, c |-> cost.c]
     ELSE cost]

\* basis_cost - final_cost, added to the balance for a disposed lot.
GainLoss(x) ==
  LET e == Exchange(x.amount, x.cost)
  IN [q |-> e.basis_cost.q - e.final_cost.q, c |-> x.cost.c]

ExchangeXact(x) ==
  IF is_null(x.cost) \/ commodity_annotated(x.amount) THEN x
  ELSE [x EXCEPT !.amount = Exchange(x.amount, x.cost).ann_amount]

ExchangeBalanceStep(bal, x) ==
  IF ~is_null(x.cost) /\ commodity_annotated(x.amount)
  THEN ValueAdd(bal, GainLoss(x))
  ELSE bal

RECURSIVE ExchangeBalanceFrom(_, _, _)
ExchangeBalanceFrom(bal, xs, i) ==
  IF i > Len(xs) THEN bal
  ELSE ExchangeBalanceFrom(ExchangeBalanceStep(bal, xs[i]), xs, i + 1)

\* assert(x_amt.commodity() != (*x)->cost->commodity())
CostCommodityDiffers(xs) ==
  \A i \in 1..Len(xs) :
    ~is_null(xs[i].cost) => xs[i].amount.c # xs[i].cost.c

\* The zero test on the balance as it is, not rounded.
FinalCheck_Unrounded(bal) ==
  IF value_is_null(bal) THEN [result |-> "true", balance |-> bal]
  ELSE IF ~ValueIsZero(bal)
       THEN [result |-> "balance_error", balance |-> bal]
       ELSE [result |-> "true", balance |-> bal]

\* The last step: what finalize reports for the balance that is left.
FinalCheck(bal) ==
  IF value_is_null(bal) THEN [result |-> "true", balance |-> bal]
  ELSE IF ~ValueIsZero(ValueRound(bal))
       THEN [result |-> "balance_error", balance |-> ValueRound(bal)]
       ELSE [result |-> "true", balance |-> ValueRound(bal)]

\* finalize() on the postings xs of an entry whose journal has the default
\* account `basket` ("" for none): the postings it leaves, how it ended, and
\* the balance it ended with.
FinalizeResult(xs, basket) ==
  LET acc == Accumulate(xs)
  IN IF acc.error
     THEN [xacts |-> xs, result |-> "logic_error", balance |-> NULL_VALUE]
     ELSE
     LET xs2 == IF UsesBasket(xs, basket)
                THEN Append(xs, BasketXact(basket, xs[1])) ELSE xs
         null_xact == IF UsesBasket(xs, basket) THEN 2 ELSE acc.null_xact
         bal == acc.balance
     IN IF null_xact # 0 /\ NoAmountToNegate(bal)
        THEN [xacts |-> xs2, result |-> "assertion", balance |-> bal]
        ELSE
        LET xs3 == IF null_xact # 0 THEN ResolveNull(xs2, null_xact, bal)
                   ELSE IF InfersCosts(bal) THEN InferCosts(xs2, bal)
                   ELSE xs2
            bal3 == IF null_xact # 0 THEN NULL_VALUE
                    ELSE IF InfersCosts(bal)
                         THEN RebalanceFrom(bal, xs2, xs3,
                                            BalanceAmounts(bal)[1].c, 1)
                    ELSE bal
        IN IF ~CostCommodityDiffers(xs3)
           THEN [xacts |-> xs3, result |-> "assertion", balance |-> bal3]
           ELSE
           LET xs5 == [i \in 1..Len(xs3) |-> ExchangeXact(xs3[i])]
               bal5 == ExchangeBalanceFrom(bal3, xs3, 1)
               fin == FinalCheck(bal5)
           IN [xacts |-> xs5, result |-> fin.result, balance |-> fin.balance]

\* ------------------------------------------- auto_entry_t::extend_entry
\* The predicate of an automated entry, on one posting.
predicate(ae, x) == ae.predicate = "all" \/ x.account = ae.predicate

has_commodity(a) == a.c # NullCommodity

\* The two modes exchanged.
TemplateApplies_Swapped(t, post) ==
  IF ~has_commodity(t.amount) THEN ~post ELSE post

\* Whether a template posting is used in the given mode.
TemplateApplies(t, post) == IF ~has_commodity(t.amount) THEN post ELSE ~post

\* The amount of the posting made from template t for the matched posting m.
AutoAmount(m, t) ==
  IF ~has_commodity(t.amount) THEN multiply(m.amount, t.amount) ELSE t.amount

AutoAccount(m, t) ==
  IF t.account \in {"$account", "@account"} THEN m.account ELSE t.account

AutoXact(m, t) ==
  Xact(AutoAccount(m, t), AutoAmount(m, t), NullAmt, t.state,
       t.flags \cup {"AUTO"})

RECURSIVE TemplateXacts(_, _, _, _)
TemplateXacts(m, ts, post, j) ==
  IF j > Len(ts) THEN <<>>
  ELSE (IF TemplateApplies(ts[j], post) THEN <<AutoXact(m, ts[j])>> ELSE <<>>)
         \o TemplateXacts(m, ts, post, j + 1)

RECURSIVE ExtendFrom(_, _, _, _)
ExtendFrom(initial_xacts, ae, post, i) ==
  IF i > Len(initial_xacts) THEN <<>>
  ELSE (IF predicate(ae, initial_xacts[i])
        THEN TemplateXacts(initial_xacts[i], ae.xacts, post, 1) ELSE <<>>)
         \o ExtendFrom(initial_xacts, ae, post, i + 1)

\* The postings the call scans: those in the entry when the call begins.
ScannedXacts(xs) == xs

\* The postings appended are scanned once more.
ExtendXacts_Rescan(xs, ae, post) ==
  LET first == ExtendFrom(ScannedXacts(xs), ae, post, 1)
  IN first \o ExtendFrom(first, ae, post, 1)

\* The postings one call appends to the entry.
ExtendXacts(xs, ae, post) == ExtendFrom(ScannedXacts(xs), ae, post, 1)

\* assert((*t)->amount), assert((*i)->amount), assert(! fullname.empty())
ExtendAsserts(xs, ae, post) ==
  /\ \A j \in 1..Len(ae.xacts) :
        ~is_null(ae.xacts[j].amount) /\ ae.xacts[j].account # ""
  /\ \A i \in 1..Len(xs) : \A j \in 1..Len(ae.xacts) :
        (predicate(ae, xs[i]) /\ ~has_commodity(ae.xacts[j].amount) /\ post)
          => ~is_null(xs[i].amount)

\* ---------------------------------------------------------------- inputs
Quantities == ((0 - MaxQty)..MaxQty) \ {0}

LotPrices == 1..MaxLot

\* The postings a journal file gives an entry.
PlainXacts ==
  {Xact("Acct1", Amt(n, name), NullAmt, "uncleared", {}) :
     n \in Quantities, name \in {"A", "B"}}
    \cup {Xact("Acct1", Amt(1, "A"), NullAmt, "pending", {})}

NullXacts ==
  {Xact("Acct2", NullAmt, NullAmt, "cleared", {}),
   Xact("Acct2", NullAmt, NullAmt, "uncleared", {"VIRTUAL"})}

VirtualXacts == {Xact("Acct2", Amt(1, "A"), NullAmt, "uncleared", {"VIRTUAL"})}

CostXacts == {Xact("Acct1", Amt(1, "A"), Amt(1, "B"), "uncleared", {})}

LotXacts ==
  {Xact("Acct1", LotAmt(-1, "A", p), Amt(-1, "B"), "uncleared", f) :
     p \in LotPrices, f \in {{}, {"VIRTUAL"}}}
    \cup {Xact("Acct1", LotAmt(1, "B", p), NullAmt, "uncleared", {}) :
            p \in LotPrices}

XactInputs ==
  PlainXacts \cup NullXacts \cup VirtualXacts \cup CostXacts \cup LotXacts

\* Template postings of the automated entries: a bare multiplier and two
\* fixed amounts.
Templates ==
  <<Xact("$account", [q |-> 2 * Fine, c |-> NullCommodity], NullAmt,
         "pending", {}),
    Xact("Acct2", Amt(1, "C"), NullAmt, "cleared", {}),
    Xact("@account", Amt(-1, "B"), NullAmt, "uncleared", {})>>

AutoEntries == {[predicate |-> p, xacts |-> Templates] : p \in {"all", "Acct1"}}

NoCall == [called |-> FALSE, post |-> FALSE, predicate |-> "", initial_xacts |-> <<>>]

\* ----------------------------------------------------------------- state
VARIABLES
  xacts,        \* the entry's postings, in order
  basket,       \* journal->basket: the default account, "" when none
  pc,           \* "build", "extended", "finalized", "posted"
  result,       \* how finalize ended: "none" before the call
  balance,      \* the balance finalize ended with
  normalized,   \* the entry's normalized mark
  orig,         \* the postings finalize was called on
  ext           \* the last extend_entry call: its mode, predicate, snapshot

vars == <<xacts, basket, pc, result, balance, normalized, orig, ext>>

Init ==
  /\ xacts = <<>>
  /\ basket \in {"", "Basket"}
  /\ pc = "build"
  /\ result = "none"
  /\ balance = NULL_VALUE
  /\ normalized = FALSE
  /\ orig = <<>>
  /\ ext = NoCall

\* entry_base_t::add_xact
AddXact(x) ==
  /\ pc = "build"
  /\ Len(xacts) < MaxXacts
  /\ xacts' = Append(xacts, x)
  /\ UNCHANGED <<basket, pc, result, balance, normalized, orig, ext>>

\* entry_base_t::remove_xact
RemoveXact(i) ==
  /\ pc = "build"
  /\ i \in 1..Len(xacts)
  /\ xacts' = [j \in 1..(Len(xacts) - 1) |->
                 IF j < i THEN xacts[j] ELSE xacts[j + 1]]
  /\ UNCHANGED <<basket, pc, result, balance, normalized, orig, ext>>

\* auto_entry_t::extend_entry(entry, post): before finalize with post false,
\* after a finalize that returned true with post true.
ExtendEntry(ae, post) ==
  /\ \/ pc = "build" /\ ~post
     \/ pc = "finalized" /\ result = "true" /\ post
  /\ ExtendAsserts(xacts, ae, post)
  /\ xacts' = xacts \o ExtendXacts(xacts, ae, post)
  /\ pc' = IF post THEN "posted" ELSE "extended"
  /\ ext' = [called |-> TRUE, post |-> post, predicate |-> ae.predicate,
             initial_xacts |-> xacts]
  /\ UNCHANGED <<basket, result, balance, normalized, orig>>

\* entry_base_t::finalize
Finalize ==
  /\ pc \in {"build", "extended"}
  /\ LET r == FinalizeResult(xacts, basket)
     IN /\ xacts' = r.xacts
        /\ result' = r.result
        /\ balance' = r.balance
  /\ orig' = xacts
  /\ pc' = "finalized"
  /\ UNCHANGED <<basket, normalized, ext>>

Next ==
  \/ \E x \in XactInputs : AddXact(x)
  \/ \E i \in 1..MaxXacts : RemoveXact(i)
  \/ \E ae \in AutoEntries : \E post \in BOOLEAN : ExtendEntry(ae, post)
  \/ Finalize

Spec == Init /\ [][Next]_vars

\* ------------------------------------------------------ shared by claims
\* The postings of xs that count towards the balance, with what they count.
Balancing(xs) ==
  {i \in 1..Len(xs) : must_balance(xs[i]) /\ ~is_null(P(xs[i]))}

RECURSIVE SumOver(_, _)
\* The sum of f[i] over the indices i of I.
SumOver(I, f) ==
  IF I = {} THEN 0
  ELSE LET i == CHOOSE j \in I : TRUE
       IN f[i] + SumOver(I \ {i}, f)

\* The total of cost ?? amount over the must-balance postings, in commodity c.
Contributed(xs, c) ==
  LET I == {i \in Balancing(xs) : P(xs[i]).c = c}
  IN SumOver(I, [i \in I |-> P(xs[i]).q])

\* The postings that dispose of a lot: the amount finalize was given is
\* annotated and the posting has a cost once costs are settled.
Disposals(before, after) ==
  {i \in 1..Len(before) :
     /\ ~is_null(before[i].amount)
     /\ before[i].amount.c[2] # NoLot
     /\ ~is_null(after[i].cost)}

\* The realized gain or loss in commodity c: lot price times quantity, less
\* the cost.
Realized(before, after, c) ==
  LET I == {i \in Disposals(before, after) : after[i].cost.c = c}
  IN SumOver(I, [i \in I |->
       (before[i].amount.c[2] * before[i].amount.q) \div Fine
         - after[i].cost.q])

CommoditiesOf(xs) ==
  {P(xs[i]).c : i \in Balancing(xs)}
    \cup {xs[i].cost.c : i \in {j \in 1..Len(xs) : ~is_null(xs[j].cost)}}

Finalized == pc = "finalized"

Accepted == pc = "finalized" /\ result = "true"

\* ------------------------------------------------------------------- C1
\* C1 as stated: whenever finalize returns success, the sum of cost ?? amount
\* over the must_balance postings, rounded, is zero in every commodity, also
\* for entries disposing of a lot.
C1_Original ==
  Accepted =>
    \A c \in CommoditiesOf(xacts) : RoundQty(Contributed(xacts, c)) = 0

\* C1 amended: whenever finalize returns success, the sum of cost ?? amount
\* over the must_balance postings plus the realized gain or loss (basis cost
\* less final cost) of every posting disposing of a lot, rounded, is zero in
\* every commodity.
C1_Balanced ==
  Accepted =>
    \A c \in CommoditiesOf(xacts) :
      RoundQty(Contributed(xacts, c) + Realized(orig, xacts, c)) = 0

\* An accepted entry with a realized gain or loss that is not zero.
C1_Witness ==
  /\ Accepted
  /\ \E c \in CommoditiesOf(xacts) : Realized(orig, xacts, c) # 0

\* ------------------------------------------------------------------- C2
\* C2 as stated: every entry in which two or more postings have an unset
\* amount, whatever their flags, fails with the multiple-null-amounts error.
C2_Original ==
  (Finalized /\
     Cardinality({i \in 1..Len(orig) : is_null(orig[i].amount)}) >= 2)
    => result = "logic_error"

NullBalancing(xs) ==
  {i \in 1..Len(xs) : must_balance(xs[i]) /\ is_null(xs[i].amount)}

\* C2 amended: every entry in which two or more must_balance postings have an
\* unset amount fails with the multiple-null-amounts error.
C2_MultipleNull ==
  (Finalized /\ Cardinality(NullBalancing(orig)) >= 2)
    => result = "logic_error"

\* finalize was called on an entry with two must_balance null postings.
C2_Witness ==
  /\ Finalized
  /\ Cardinality(NullBalancing(orig)) >= 2
  /\ result = "logic_error"

\* ------------------------------------------------------------------- C3
\* C3: an entry with exactly one posting, in a journal with a default account,
\* ends finalize with two postings, the original one and then a generated,
\* calculated posting in the default account holding the negated contribution
\* of the first, and balances to zero.
C3_DefaultAccount ==
  (Finalized /\ Len(orig) = 1 /\ basket # "")
    => /\ result = "true"
       /\ Len(xacts) = 2
       /\ xacts[1].account = orig[1].account
       /\ xacts[2].account = basket
       /\ {"GENERATED", "CALCULATED"} \subseteq xacts[2].flags
       /\ xacts[2].amount = negate(P(orig[1]))
       /\ \A c \in CommoditiesOf(xacts) : Contributed(xacts, c) = 0

\* ------------------------------------------------------------------- C4
\* The null posting finalize records: the must_balance posting without value.
TheNullXact(xs) == CHOOSE i \in NullBalancing(xs) : TRUE

\* The commodities the other must_balance postings contribute, in canonical
\* order.
Spanned(xs) == SortCommodities({P(xs[i]).c : i \in Balancing(xs)})

\* C4: with one null posting and the other must_balance postings spanning
\* k >= 2 commodities, the null posting gets the negated total of the
\* canonical-first commodity, exactly k-1 generated postings are appended at
\* the end, one per remaining commodity in canonical order, each in the null
\* posting's account with that commodity's negated total, and every
\* commodity then sums to zero.
C4_MultiCommodityNull ==
  (Finalized /\ Cardinality(NullBalancing(orig)) = 1
     /\ Len(Spanned(orig)) >= 2)
    => LET n == TheNullXact(orig)
           cs == Spanned(orig)
           k == Len(cs)
       IN /\ Len(xacts) = Len(orig) + k - 1
          /\ xacts[n].amount = [q |-> 0 - Contributed(orig, cs[1]), c |-> cs[1]]
          /\ \A j \in 1..(k - 1) :
                LET g == xacts[Len(orig) + j]
                IN /\ "GENERATED" \in g.flags
                   /\ g.account = orig[n].account
                   /\ g.amount = [q |-> 0 - Contributed(orig, cs[j + 1]),
                                  c |-> cs[j + 1]]
          /\ \A c \in CommoditiesOf(xacts) : Contributed(xacts, c) = 0

\* A null posting resolved against three commodities.
C4_Witness ==
  /\ Finalized
  /\ Cardinality(NullBalancing(orig)) = 1
  /\ Len(Spanned(orig)) = 3
  /\ Len(xacts) = Len(orig) + 2

\* ------------------------------------------------------------------- C5
\* The entry has no null posting and its must_balance postings span exactly
\* two commodities, the canonically second with a total that is not zero.
TwoCommodities(xs) ==
  /\ NullBalancing(xs) = {}
  /\ Len(Spanned(xs)) = 2
  /\ Contributed(xs, Spanned(xs)[2]) # 0

\* cost = |x / y| * amount, to the digits a quotient keeps.
IsPerUnitCost(cost, amount, x, y) ==
  /\ Fine * Abs(cost.q * Abs(y) - Abs(x) * amount.q) <= Abs(y) * Abs(amount.q)
  /\ cost.q * amount.q >= 0

\* The costs finalize infers: on exactly the must_balance postings without a
\* cost whose commodity is not x's, cost = |x / y| * amount in x's commodity;
\* every other cost is left as it was.
CostsInferred ==
  LET cs == Spanned(orig)
      x == Contributed(orig, cs[1])
      y == Contributed(orig, cs[2])
  IN \A i \in 1..Len(orig) :
       IF must_balance(orig[i]) /\ is_null(orig[i].cost)
            /\ orig[i].amount.c # cs[1]
       THEN /\ ~is_null(xacts[i].cost)
            /\ xacts[i].cost.c = cs[1]
            /\ IsPerUnitCost(xacts[i].cost, orig[i].amount, x, y)
       ELSE xacts[i].cost = orig[i].cost

\* Two postings of opposite sign in two commodities, neither with a cost.
OppositePair(xs) ==
  /\ Len(xs) = 2
  /\ \A i \in 1..2 : is_null(xs[i].cost) /\ ~is_null(xs[i].amount)
  /\ xs[1].amount.q * xs[2].amount.q < 0

\* C5 as stated: the costs are inferred as above, and two postings of
\* opposite sign in two commodities without explicit cost always finalize
\* successfully with zero residual.
C5_Original ==
  (Finalized /\ TwoCommodities(orig))
    => /\ CostsInferred
       /\ OppositePair(orig) => (result = "true" /\ ValueIsZero(balance))

\* C5 amended: the costs are inferred as above, and two postings of opposite
\* sign in two commodities without explicit cost, neither amount annotated
\* with a lot price, always finalize successfully with zero residual.
C5_CostInference ==
  (Finalized /\ TwoCommodities(orig))
    => /\ CostsInferred
       /\ (OppositePair(orig)
             /\ \A i \in 1..2 : orig[i].amount.c[2] = NoLot)
            => (result = "true" /\ ValueIsZero(balance))

\* A cost was inferred from a quotient that is not whole, and the entry of two
\* plain postings was accepted.
C5_Witness ==
  /\ Accepted
  /\ TwoCommodities(orig)
  /\ OppositePair(orig)
  /\ \A i \in 1..2 : orig[i].amount.c[2] = NoLot
  /\ \E i \in 1..2 :
        /\ is_null(orig[i].cost) /\ ~is_null(xacts[i].cost)
        /\ xacts[i].cost.q % Fine # 0

\* ------------------------------------------------------------------- C6
\* What is left in commodity c after finalize, rounded.
Residual(c) == RoundQty(Contributed(xacts, c) + Realized(orig, xacts, c))

\* finalize fails as unbalanced exactly when a rounded residual is not zero,
\* and then reports the residual.
UnbalancedExactly ==
  (Finalized /\ result \in {"true", "balance_error"})
    => /\ result = "balance_error"
            <=> \E c \in CommoditiesOf(xacts) : Residual(c) # 0
       /\ result = "balance_error"
            => \A c \in DOMAIN balance \cup CommoditiesOf(xacts) :
                 (IF c \in DOMAIN balance THEN balance[c] ELSE 0) = Residual(c)

\* No null posting, and what the must_balance postings contribute is all in
\* one commodity.
OneCommodity(xs) ==
  /\ \A i \in 1..Len(xs) : ~is_null(xs[i].amount)
  /\ Len(Spanned(xs)) = 1

\* The balance reported is r of commodity c and nothing of any other.
Reports(c, r) ==
  \A d \in DOMAIN balance \cup {c} :
    (IF d \in DOMAIN balance THEN balance[d] ELSE 0) = (IF d = c THEN r ELSE 0)

\* C6 as stated: unbalanced exactly when the rounded balance left is not zero;
\* an entry with no null posting whose must_balance postings are all in one
\* commodity and sum to r # 0 always fails, with residual r.
C6_Original ==
  /\ UnbalancedExactly
  /\ (Finalized /\ OneCommodity(orig)
        /\ Contributed(orig, Spanned(orig)[1]) # 0)
       => /\ result = "balance_error"
          /\ Reports(Spanned(orig)[1], Contributed(orig, Spanned(orig)[1]))

\* C6 amended: as stated, for an entry that is not a single posting balanced
\* against the journal's default account and in which no posting disposes of
\* a lot.
C6_Unbalanced ==
  /\ UnbalancedExactly
  /\ (Finalized /\ OneCommodity(orig)
        /\ Contributed(orig, Spanned(orig)[1]) # 0
        /\ ~(Len(orig) = 1 /\ basket # "")
        /\ Disposals(orig, orig) = {})
       => /\ result = "balance_error"
          /\ Reports(Spanned(orig)[1], Contributed(orig, Spanned(orig)[1]))

\* A one-commodity entry was rejected with its residual.
C6_Witness ==
  /\ Finalized
  /\ OneCommodity(orig)
  /\ Len(orig) >= 2
  /\ Disposals(orig, orig) = {}
  /\ result = "balance_error"
  /\ \E c \in DOMAIN balance : balance[c] # 0

\* ------------------------------------------------------------------- C7
\* C7: normalized is false until finalize returns success, true in every
\* state after that, and false after a finalize that failed.
C7_Normalized ==
  /\ result # "true" => ~normalized
  /\ result = "true" => normalized

\* ------------------------------------------------------------- C8, C9
\* A call of extend_entry has just returned.
AfterExtend == ext.called /\ pc \in {"extended", "posted"}

RECURSIVE Ascending(_)
Ascending(S) ==
  IF S = {} THEN <<>>
  ELSE LET m == CHOOSE i \in S : \A j \in S : i <= j
       IN <<m>> \o Ascending(S \ {m})

\* The snapshot postings the predicate of the call matches, in order.
Matched ==
  Ascending({i \in 1..Len(ext.initial_xacts) :
               ext.predicate = "all"
                 \/ ext.initial_xacts[i].account = ext.predicate})

\* The templates used in the mode of the call: the bare multipliers when post
\* is true, the amounts with a commodity when it is false.
Used ==
  Ascending({j \in 1..Len(Templates) :
               (Templates[j].amount.c = NullCommodity) <=> ext.post})

\* The posting made for the k-th matched posting and the r-th used template.
Made(k, r) == xacts[Len(ext.initial_xacts) + (k - 1) * Len(Used) + r]

\* C8: a template without commodity yields a posting only when post is true,
\* with amount matched.amount * template.amount; a template with a commodity
\* only when post is false, with the template's amount unchanged; a pair
\* yields nothing in the other mode.
C8_TemplateModes ==
  AfterExtend =>
    /\ Len(xacts) = Len(ext.initial_xacts) + Len(Matched) * Len(Used)
    /\ \A k \in 1..Len(Matched) : \A r \in 1..Len(Used) :
         LET m == ext.initial_xacts[Matched[k]]
             t == Templates[Used[r]]
         IN IF ext.post
            THEN /\ Made(k, r).amount.q = (m.amount.q * t.amount.q) \div Fine
                 /\ Made(k, r).amount.c = m.amount.c
            ELSE Made(k, r).amount = t.amount

\* A multiplier template was applied to a matched posting in post mode.
C8_Witness ==
  /\ AfterExtend
  /\ ext.post
  /\ Len(Matched) >= 2
  /\ Len(xacts) > Len(ext.initial_xacts)

\* C9: the call tests the predicate only on the postings that were in the
\* entry when it began, and appends at the end, leaving the postings already
\* there as they were, exactly (matching snapshot postings) x (templates used
\* in the mode) postings, each flagged auto.
C9_Snapshot ==
  AfterExtend =>
    /\ Len(xacts) = Len(ext.initial_xacts) + Len(Matched) * Len(Used)
    /\ SubSeq(xacts, 1, Len(ext.initial_xacts)) = ext.initial_xacts
    /\ \A i \in (Len(ext.initial_xacts) + 1)..Len(xacts) :
         "AUTO" \in xacts[i].flags

\* A call whose predicate matches everything, its own postings included,
\* appended postings.
C9_Witness ==
  /\ AfterExtend
  /\ ext.predicate = "all"
  /\ ~ext.post
  /\ Len(xacts) > Len(ext.initial_xacts)

\* ------------------------------------------------------------------ C10
\* C10: every posting finalize generates has the state of its source: the
\* default-account posting that of the first posting, every per-commodity
\* remainder posting that of the null posting.
C10_GeneratedState ==
  (Finalized /\ Len(xacts) > Len(orig))
    => \A i \in (Len(orig) + 1)..Len(xacts) :
         xacts[i].state =
           IF Len(orig) = 1 /\ basket # "" THEN orig[1].state
           ELSE orig[TheNullXact(orig)].state

====
